---------------------------- MODULE Spec2Model ----------------------------
(***************************************************************************)
(* A model of app.py, the finance dashboard script: one run of the script  *)
(* from the download of the prices (lines 135-140) through the metrics row *)
(* (145-163), the price/returns tab with the benchmark block (171-212),    *)
(* the correlations tab (215-231) and the downloads tab (280-297).         *)
(*                                                                         *)
(* A DataFrame is a record                                                 *)
(*    [idx: the dates, strictly increasing; cols: the column labels;       *)
(*     mi: whether cols is a ("Close", ticker) MultiIndex;                 *)
(*     val: the rows, val[i][j] the cell of row i and column j].           *)
(* A float cell is an exact rational [n, d] in lowest terms with d > 0;    *)
(* NaN is [n |-> 0, d |-> 0].  Prices are positive integers.               *)
(*                                                                         *)
(* pandas' DataFrame.pct_change pads (forward-fills) its input before      *)
(* dividing in every pandas before 3.0 (fill_method="pad" is the default)  *)
(* and does not from 3.0 on.  app.py pins no version, so fill_method is    *)
(* chosen by the installation: the model draws it in Init.                 *)
(***************************************************************************)
EXTENDS Integers, Sequences, FiniteSets

\* Bounds of the model.
MaxRows == 3
MaxBenchRows == 2
\* rolling(30) of line 162, scaled to the tables the model enumerates.
Window == 2
\* The closing prices a cell is drawn from.
Prices == {1, 2}

VARIABLES
    fill_method,      \* "pad" | "none": pct_change's default in the installed pandas
    tickers,          \* line 109: the sorted ticker list
    benchmark,        \* line 119: "" when the field is cleared
    download_toggle,  \* line 122
    yearStart,        \* line 150: January 1 of today's year, as a trading day
    data,             \* what yf.download answers for the tickers
    bench_data,       \* what yf.download answers for [benchmark]
    pc,               \* the script's position
    prices, bench_prices, close_wide, long_close,     \* lines 135-140
    ret_daily, cum, latest, ytd, vol30,               \* lines 146-162
    norm,             \* line 203
    r,                \* line 218
    files,            \* lines 291-295
    warnings,         \* st.warning calls of lines 51 and 212
    err               \* the uncaught exception that ended the run, or "none"

vars == <<fill_method, tickers, benchmark, download_toggle, yearStart, data,
          bench_data, pc, prices, bench_prices, close_wide, long_close,
          ret_daily, cum, latest, ytd, vol30, norm, r, files, warnings, err>>

----------------------------------------------------------------------------
\* Floats as exact rationals.

NaN == [n |-> 0, d |-> 0]
IsNaN(x) == x.d = 0
Abs(k) == IF k < 0 THEN -k ELSE k

RECURSIVE GCD(_, _)
GCD(a, b) == IF b = 0 THEN a ELSE GCD(b, a % b)

\* n/d in lowest terms, d # 0.
Rat(n, d) ==
    LET s == IF d < 0 THEN -1 ELSE 1
        g == GCD(Abs(n), Abs(d))
    IN  [n |-> (s * n) \div g, d |-> (s * d) \div g]

Num(k) == [n |-> k, d |-> 1]
Zero == Num(0)
One == Num(1)

\* Float arithmetic: NaN propagates; 0/0 is NaN.  A nonzero value is never
\* divided by zero here (prices are positive), so infinities do not arise.
RAdd(x, y) == IF IsNaN(x) \/ IsNaN(y) THEN NaN ELSE Rat(x.n * y.d + y.n * x.d, x.d * y.d)
RSub(x, y) == IF IsNaN(x) \/ IsNaN(y) THEN NaN ELSE Rat(x.n * y.d - y.n * x.d, x.d * y.d)
RMul(x, y) == IF IsNaN(x) \/ IsNaN(y) THEN NaN ELSE Rat(x.n * y.n, x.d * y.d)
RDiv(x, y) == IF IsNaN(x) \/ IsNaN(y) \/ y.n = 0 THEN NaN ELSE Rat(x.n * y.d, x.d * y.n)

RECURSIVE RSum(_)
RSum(s) == IF s = <<>> THEN Zero ELSE RAdd(s[1], RSum(Tail(s)))

----------------------------------------------------------------------------
\* DataFrames.

\* pd.DataFrame()
DataFrame == [idx |-> <<>>, cols |-> <<>>, mi |-> FALSE, val |-> <<>>]
\* A variable the script has not assigned (yet).
Unset == [unset |-> TRUE]
\* A step the script skipped because of its `if`.
Skipped == [skipped |-> TRUE]
\* The value a try block leaves unassigned when it raises.
Raised == [raised |-> TRUE]

NRows(t) == Len(t.idx)
NCols(t) == Len(t.cols)
\* DataFrame.empty: an axis of length 0.
Empty(t) == NRows(t) = 0 \/ NCols(t) = 0

Column(t, j) == [i \in 1..NRows(t) |-> t.val[i][j]]
SetMax(S) == CHOOSE x \in S : \A y \in S : y <= x
SetMin(S) == CHOOSE x \in S : \A y \in S : x <= y

\* Series.ffill / Series.bfill
ffillSeq(s) ==
    [i \in 1..Len(s) |->
        LET K == {k \in 1..i : ~IsNaN(s[k])}
        IN  IF K = {} THEN NaN ELSE s[SetMax(K)]]
bfillSeq(s) ==
    [i \in 1..Len(s) |->
        LET K == {k \in i..Len(s) : ~IsNaN(s[k])}
        IN  IF K = {} THEN NaN ELSE s[SetMin(K)]]

\* DataFrame.ffill / DataFrame.bfill: column by column.
ffill(t) ==
    [t EXCEPT !.val = [i \in 1..NRows(t) |-> [j \in 1..NCols(t) |->
                          ffillSeq(Column(t, j))[i]]]]
bfill(t) ==
    [t EXCEPT !.val = [i \in 1..NRows(t) |-> [j \in 1..NCols(t) |->
                          bfillSeq(Column(t, j))[i]]]]

\* cl.columns = [c[1] for c in cl.columns]  (lines 83-84, 93-94, 70-72)
FlattenColumns(t) == [t EXCEPT !.mi = FALSE]

\* The rows of t at the positions of `keep`, in order.
RECURSIVE Positions(_, _)
Positions(n, keep) ==
    IF n = 0 THEN <<>>
    ELSE IF n \in keep THEN Append(Positions(n - 1, keep), n)
    ELSE Positions(n - 1, keep)
TakeRows(t, keep) ==
    LET p == Positions(NRows(t), keep)
    IN  [t EXCEPT !.idx = [k \in 1..Len(p) |-> t.idx[p[k]]],
                  !.val = [k \in 1..Len(p) |-> t.val[p[k]]]]

\* DataFrame.iloc[i] as a Series over the column labels.
Series(labels, v) == [c \in {labels[j] : j \in 1..Len(labels)} |->
                        v[CHOOSE j \in 1..Len(labels) : labels[j] = c]]

----------------------------------------------------------------------------
\* Helpers of app.py (lines 37-96).

\* What yf.download answered with an exception (or without a Close column).
DownloadFailed == [fail |-> TRUE]

\* fetch_prices without the relabelling of line 47: a single ticker's frame is
\* returned as downloaded (mutant).
fetch_prices_no_relabel(tk, answer) ==
    IF answer = DownloadFailed
    THEN [df |-> DataFrame, warned |-> TRUE]
    ELSE [df |-> [answer EXCEPT !.mi = TRUE], warned |-> FALSE]

\* fetch_prices (lines 41-52).  `answer` is yf.download's answer restricted to
\* data[['Close']]: DownloadFailed, or a frame with one column per Close series.
\* Line 47 gives a single requested ticker's frame a one-label MultiIndex; pandas
\* raises ValueError (length mismatch) when the frame has another number of
\* columns, and the except of line 50 turns every exception into pd.DataFrame().
fetch_prices(tk, answer) ==
    IF answer = DownloadFailed
    THEN [df |-> DataFrame, warned |-> TRUE]
    ELSE IF Len(tk) = 1
    THEN IF NCols(answer) # 1
         THEN [df |-> DataFrame, warned |-> TRUE]
         ELSE [df |-> [answer EXCEPT !.cols = <<tk[1]>>, !.mi = TRUE], warned |-> FALSE]
    ELSE [df |-> [answer EXCEPT !.mi = TRUE], warned |-> FALSE]

\* prices.xs("Close", axis=1, level=0) if the columns are a MultiIndex else prices
\* (line 139)
CloseWide(p) == IF p.mi THEN FlattenColumns(p) ELSE p

\* to_long_close (lines 66-77): melt lists the cells column by column, and
\* dropna removes the rows without a price.  An empty frame is returned as it
\* is: it has no rows.
RECURSIVE MeltFrom(_, _)
MeltFrom(t, j) ==
    IF j > NCols(t) THEN <<>>
    ELSE [i \in 1..NRows(t) |->
             [Date |-> t.idx[i], Ticker |-> t.cols[j], Close |-> t.val[i][j]]]
         \o MeltFrom(t, j + 1)
HasClose(row) == ~IsNaN(row.Close)
to_long_close(cw) ==
    IF Empty(cw) THEN [rows |-> <<>>]
    ELSE [rows |-> SelectSeq(MeltFrom(FlattenColumns(cw), 1), HasClose)]

\* cl / cl.iloc[0] - 1.0  (lines 86 and 203)
OverFirstRow(cl) ==
    [cl EXCEPT !.val = [i \in 1..NRows(cl) |-> [j \in 1..NCols(cl) |->
                           RSub(RDiv(cl.val[i][j], cl.val[1][j]), One)]]]

\* normalized_returns with ffill() alone on line 85 (mutant).
normalized_returns_no_bfill(cw) ==
    IF Empty(cw) THEN cw
    ELSE OverFirstRow(ffill(FlattenColumns(cw)))

\* normalized_returns (lines 79-87).  x / x - 1.0 is exactly 0.0 for a positive
\* float x, as it is for the rational.
normalized_returns(cw) ==
    IF Empty(cw) THEN cw
    ELSE OverFirstRow(bfill(ffill(FlattenColumns(cw))))

\* DataFrame.pct_change(): data / data.shift(1) - 1, where data is the frame
\* itself (fill_method None) or the frame forward-filled (fill_method "pad").
pct_change(cl, fm) ==
    LET dat == IF fm = "pad" THEN ffill(cl) ELSE cl
    IN  [dat EXCEPT !.val = [i \in 1..NRows(dat) |-> [j \in 1..NCols(dat) |->
                   IF i = 1 THEN NaN
                   ELSE RSub(RDiv(dat.val[i][j], dat.val[i - 1][j]), One)]]]

\* dropna(how="any") in place of how="all" (mutant).
dropna_any(t) ==
    TakeRows(t, {i \in 1..NRows(t) : \A j \in 1..NCols(t) : ~IsNaN(t.val[i][j])})

\* DataFrame.dropna(how="all"): the rows with at least one value that is not NaN.
dropna_all(t) ==
    TakeRows(t, {i \in 1..NRows(t) : \E j \in 1..NCols(t) : ~IsNaN(t.val[i][j])})

\* daily_returns (lines 89-96)
daily_returns(cw, fm) ==
    IF Empty(cw) THEN cw
    ELSE dropna_all(pct_change(FlattenColumns(cw), fm))

----------------------------------------------------------------------------
\* The metrics row (lines 145-163) and the correlations (line 218).

\* close_wide.ffill().iloc[-1]  (line 149)
latestPrices(cw) == Series(cw.cols, ffill(cw).val[NRows(cw)])

\* Lines 150-151.  With no row on or after January 1 the code builds
\* pd.Series(index=close_wide.columns): one NaN entry per column.
ytdReturn(cw, jan1) ==
    LET ytd_mask == {i \in 1..NRows(cw) : cw.idx[i] >= jan1}
        w == ffill(TakeRows(cw, ytd_mask))
    IN  IF ytd_mask # {}
        THEN Series(cw.cols, [j \in 1..NCols(cw) |->
                 RSub(RDiv(w.val[NRows(w)][j], w.val[1][j]), One)])
        ELSE Series(cw.cols, [j \in 1..NCols(cw) |-> NaN])

\* The sample variance (ddof = 1) of a sequence of floats without NaN:
\* (n * sum(x^2) - sum(x)^2) / (n * (n - 1)); 0/0, that is NaN, for n = 1.
SumSq(w) == RSum([k \in 1..Len(w) |-> RMul(w[k], w[k])])
SampleVar(w) ==
    RDiv(RSub(RMul(Num(Len(w)), SumSq(w)), RMul(RSum(w), RSum(w))),
         Num(Len(w) * (Len(w) - 1)))

\* The square of np.sqrt(252) (line 162).
AnnualizationSq == 252

\* ret_daily.rolling(Window).std().iloc[-1] * np.sqrt(252) * 100  (line 162),
\* for a frame with at least one row.  rolling(w) has min_periods = w: the
\* last window is NaN when the frame has fewer than w rows or a NaN among its
\* last w cells.  A standard deviation is irrational in general, so the Series
\* holds the SQUARE of each value: variance * 252 * 100^2.
rollingVolatility(ret) ==
    Series(ret.cols, [j \in 1..NCols(ret) |->
        IF NRows(ret) < Window THEN NaN
        ELSE LET w == [k \in 1..Window |-> ret.val[NRows(ret) - Window + k][j]]
             IN  IF \E k \in 1..Window : IsNaN(w[k]) THEN NaN
                 ELSE RMul(SampleVar(w), Num(AnnualizationSq * 100 * 100))])

\* One entry of DataFrame.corr() (Pearson, min_periods = 1), from the rows where
\* both columns have a value: pandas' nancorr sets the entry to
\* covxy / sqrt(ssqdx * ssqdy) when that divisor is not 0 and to NaN otherwise.
\* The entry is kept as its sign and its square (a rational); sq is NaN for a
\* NaN entry.  sqrt(x * x) = x exactly in IEEE arithmetic, so a diagonal entry
\* that is not NaN is exactly 1.0.
Sgn(k) == IF k > 0 THEN 1 ELSE IF k < 0 THEN -1 ELSE 0
CorrEntry(x, y) ==
    LET both == {i \in 1..Len(x) : ~IsNaN(x[i]) /\ ~IsNaN(y[i])}
        p == Positions(Len(x), both)
        n == Len(p)
        xs == [k \in 1..n |-> x[p[k]]]
        ys == [k \in 1..n |-> y[p[k]]]
        xy == [k \in 1..n |-> RMul(xs[k], ys[k])]
        sxx == RSub(RMul(Num(n), SumSq(xs)), RMul(RSum(xs), RSum(xs)))
        syy == RSub(RMul(Num(n), SumSq(ys)), RMul(RSum(ys), RSum(ys)))
        sxy == RSub(RMul(Num(n), RSum(xy)), RMul(RSum(xs), RSum(ys)))
    IN  IF n < 1 \/ sxx.n = 0 \/ syy.n = 0
        THEN [sgn |-> 0, sq |-> NaN]
        ELSE [sgn |-> Sgn(sxy.n), sq |-> RDiv(RMul(sxy, sxy), RMul(sxx, syy))]

\* daily_returns(close_wide).corr()  (line 218): a matrix over the column labels.
correlationMatrix(ret) ==
    [a \in {ret.cols[j] : j \in 1..NCols(ret)} |->
        [b \in {ret.cols[j] : j \in 1..NCols(ret)} |->
            LET ja == CHOOSE j \in 1..NCols(ret) : ret.cols[j] = a
                jb == CHOOSE j \in 1..NCols(ret) : ret.cols[j] = b
            IN  CorrEntry(Column(ret, ja), Column(ret, jb))]]

----------------------------------------------------------------------------
\* The benchmark block (lines 200-204).

\* close_wide.join(other, how="inner"): the dates of both frames, the columns
\* of the left frame followed by those of the right.
InnerJoin(left, right) ==
    LET li == {i \in 1..NRows(left) : \E k \in 1..NRows(right) : right.idx[k] = left.idx[i]}
        p == Positions(NRows(left), li)
        RowOf(d) == CHOOSE k \in 1..NRows(right) : right.idx[k] = d
    IN  [idx |-> [k \in 1..Len(p) |-> left.idx[p[k]]],
         cols |-> left.cols \o right.cols,
         mi |-> FALSE,
         val |-> [k \in 1..Len(p) |-> left.val[p[k]] \o right.val[RowOf(left.idx[p[k]])]]]

\* bench_close.rename(columns={bench_close.columns[0]: "Benchmark"})
RenameFirst(t) == [t EXCEPT !.cols = [j \in 1..NCols(t) |->
                       IF t.cols[j] = t.cols[1] THEN "Benchmark" ELSE t.cols[j]]]

\* Lines 201-203, the part of the try block that computes: the normalized
\* joined frame, or Raised when a line raises:
\*   201  xs on columns that are no MultiIndex (pd.DataFrame()): TypeError
\*   202  join of frames that share a column label: ValueError
\*   203  merged.iloc[0] of a frame without rows: IndexError
\* (bench_close.columns[0] cannot raise: a MultiIndex frame out of fetch_prices
\* has a column.)
alignBenchmark(cw, bp) ==
    IF ~bp.mi \/ NCols(bp) = 0 THEN Raised
    ELSE LET renamed == RenameFirst(FlattenColumns(bp))
             merged == InnerJoin(cw, renamed)
         IN  IF \E i \in 1..NCols(cw), j \in 1..NCols(renamed) : cw.cols[i] = renamed.cols[j]
             THEN Raised
             ELSE IF NRows(merged) = 0 THEN Raised
             ELSE OverFirstRow(merged)

----------------------------------------------------------------------------
\* The inputs of a run.

Cells == {NaN} \cup {Num(p) : p \in Prices}

\* Every frame with the index `dates` and the columns `labels`.
FramesOn(dates, labels) ==
    {[idx |-> dates, cols |-> labels, mi |-> FALSE, val |-> v] :
        v \in [1..Len(dates) -> [1..Len(labels) -> Cells]]}

\* A frame with a second Close column, a copy of the first.
WithExtraColumn(t, label) ==
    [t EXCEPT !.cols = Append(t.cols, label),
              !.val = [i \in 1..NRows(t) |-> Append(t.val[i], t.val[i][1])]]

\* The trading days 1..n.
Days(n) == [i \in 1..n |-> i]

\* yf.download's answers for the tickers: a failure, or a frame with a column
\* per requested ticker over the first n trading days of the range.
TickerAnswers(tk, maxRows) ==
    {DownloadFailed} \cup UNION {FramesOn(Days(n), tk) : n \in 0..maxRows}

\* yf.download's answers for the benchmark: a failure, or a frame over any of
\* the trading days (an index has its own holidays) with one Close column or two.
BenchAnswers(maxRows) ==
    LET one == UNION {FramesOn(Positions(maxRows, S), <<"^GSPC">>) : S \in SUBSET (1..maxRows)}
    IN  {DownloadFailed} \cup one \cup {WithExtraColumn(t, "^DJI") : t \in one}

Start ==
    /\ pc = "data"
    /\ prices = Unset /\ bench_prices = Unset /\ close_wide = Unset /\ long_close = Unset
    /\ ret_daily = Unset /\ cum = Unset /\ latest = Unset /\ ytd = Unset /\ vol30 = Unset
    /\ norm = Unset /\ r = Unset /\ files = Unset
    /\ warnings = {}
    /\ err = "none"

\* Runs without a benchmark (the sidebar field cleared), two tickers.
Init ==
    /\ fill_method \in {"pad", "none"}
    /\ tickers = <<"A", "B">>
    /\ benchmark = ""
    /\ download_toggle = TRUE
    /\ yearStart \in {1, 2, MaxRows + 1}
    /\ data \in TickerAnswers(tickers, MaxRows)
    /\ bench_data = DownloadFailed
    /\ Start

\* Runs with a benchmark, one ticker.
InitBench ==
    /\ fill_method \in {"pad", "none"}
    /\ tickers = <<"A">>
    /\ benchmark = "^GSPC"
    /\ download_toggle \in BOOLEAN
    /\ yearStart = 1
    /\ data \in TickerAnswers(tickers, MaxBenchRows)
    /\ bench_data \in BenchAnswers(MaxBenchRows)
    /\ Start

Inputs == <<fill_method, tickers, benchmark, download_toggle, yearStart, data, bench_data>>

----------------------------------------------------------------------------
\* The script, section by section.

\* Lines 135-140.
Data ==
    /\ pc = "data"
    /\ LET f == fetch_prices(tickers, data)
           b == fetch_prices(<<benchmark>>, bench_data)
       IN  /\ prices' = f.df
           /\ bench_prices' = IF benchmark # "" THEN b.df ELSE Unset
           /\ close_wide' = CloseWide(f.df)
           /\ long_close' = to_long_close(f.df)
           /\ warnings' = warnings
                  \cup (IF f.warned THEN {"Price download failed (tickers)"} ELSE {})
                  \cup (IF benchmark # "" /\ b.warned
                        THEN {"Price download failed (benchmark)"} ELSE {})
    /\ pc' = "metrics"
    /\ UNCHANGED <<Inputs, ret_daily, cum, latest, ytd, vol30, norm, r, files, err>>

\* Lines 145-163.  .iloc[-1] of line 162 raises IndexError on a frame without
\* rows; nothing catches it, and the run ends there with lines 146-151 done.
MetricsRow ==
    /\ pc = "metrics"
    /\ IF Empty(close_wide)
       THEN /\ ret_daily' = Skipped /\ cum' = Skipped /\ latest' = Skipped
            /\ ytd' = Skipped /\ vol30' = Skipped
            /\ pc' = "tab1"
            /\ err' = err
       ELSE /\ ret_daily' = daily_returns(close_wide, fill_method)
            /\ cum' = normalized_returns(close_wide)
            /\ latest' = latestPrices(close_wide)
            /\ ytd' = ytdReturn(close_wide, yearStart)
            /\ IF NRows(ret_daily') = 0
               THEN vol30' = Raised /\ err' = "IndexError" /\ pc' = "crashed"
               ELSE vol30' = rollingVolatility(ret_daily') /\ err' = err /\ pc' = "tab1"
    /\ UNCHANGED <<Inputs, prices, bench_prices, close_wide, long_close, norm, r,
                   files, warnings>>

\* Lines 171-212: the cumulative-return chart and the benchmark block, whose
\* except (line 211) reports every exception as a warning.
Tab1 ==
    /\ pc = "tab1"
    /\ cum' = IF Empty(close_wide) THEN cum ELSE normalized_returns(close_wide)
    /\ IF benchmark # ""
       THEN /\ norm' = alignBenchmark(close_wide, bench_prices)
            /\ warnings' = IF norm' = Raised
                           THEN warnings \cup {"Benchmark plotting issue"}
                           ELSE warnings
       ELSE /\ norm' = Skipped
            /\ warnings' = warnings
    /\ pc' = "tab2"
    /\ UNCHANGED <<Inputs, prices, bench_prices, close_wide, long_close, ret_daily,
                   latest, ytd, vol30, r, files, err>>

\* Lines 215-231.
Tab2 ==
    /\ pc = "tab2"
    /\ r' = IF Empty(close_wide) THEN Skipped
            ELSE correlationMatrix(daily_returns(close_wide, fill_method))
    /\ pc' = "tab4"
    /\ UNCHANGED <<Inputs, prices, bench_prices, close_wide, long_close, ret_daily,
                   cum, latest, ytd, vol30, norm, files, warnings, err>>

\* Lines 280-297.  (The fundamentals tab, lines 234-277, reads no price.)
Tab4 ==
    /\ pc = "tab4"
    /\ files' = IF download_toggle /\ ~Empty(close_wide)
                THEN [prices |-> close_wide,
                      daily_returns |-> daily_returns(close_wide, fill_method),
                      cumulative_returns |-> normalized_returns(close_wide)]
                ELSE Skipped
    /\ pc' = "done"
    /\ UNCHANGED <<Inputs, prices, bench_prices, close_wide, long_close, ret_daily,
                   cum, latest, ytd, vol30, norm, r, warnings, err>>

Next == Data \/ MetricsRow \/ Tab1 \/ Tab2 \/ Tab4

Spec == Init /\ [][Next]_vars
SpecBench == InitBench /\ [][Next]_vars

----------------------------------------------------------------------------
\* Properties.

AfterData == pc # "data"
AfterMetrics == pc \notin {"data", "metrics"}
AfterTab1 == pc \in {"tab2", "tab4", "done"}
Assigned(x) == x # Unset /\ x # Skipped /\ x # Raised

HasPrice(cw, j) == \E i \in 1..NRows(cw) : ~IsNaN(cw.val[i][j])
FirstPrice(cw, j) == SetMin({i \in 1..NRows(cw) : ~IsNaN(cw.val[i][j])})
RowOfDate(t, d) == {k \in 1..NRows(t) : t.idx[k] = d}
DatesOf(t) == {t.idx[k] : k \in 1..NRows(t)}
\* The cell of date d and column j, NaN when the frame has no row of that date.
CellAt(t, d, j) == IF RowOfDate(t, d) = {} THEN NaN
                   ELSE t.val[CHOOSE k \in RowOfDate(t, d) : TRUE][j]
ValidCount(t, j) == Cardinality({i \in 1..NRows(t) : ~IsNaN(t.val[i][j])})

\* C1: whenever normalized_returns has run on a non-empty price table, its
\* first row is exactly 0 in the column of every ticker that has a price
\* anywhere in the table.
C1_FirstRowZero ==
    Assigned(cum) =>
        \A j \in 1..NCols(close_wide) :
            HasPrice(close_wide, j) => cum.val[1][j] = Zero

\* C1's case: a ticker first quoted in the last row beside one first quoted
\* in an interior row, both normalized to 0 in row 1.
C1_Witness ==
    /\ Assigned(cum)
    /\ NRows(close_wide) = 3
    /\ HasPrice(close_wide, 1) /\ FirstPrice(close_wide, 1) = 3
    /\ HasPrice(close_wide, 2) /\ FirstPrice(close_wide, 2) = 2
    /\ cum.val[1][1] = Zero /\ cum.val[1][2] = Zero

\* C2: every return daily_returns reports for a date after the first is
\* price[t]/price[t-1] - 1 of the raw prices, and is missing when either
\* price is missing.
C2_RawReturns ==
    Assigned(ret_daily) =>
        \A i \in 2..NRows(close_wide) : \A j \in 1..NCols(close_wide) :
            CellAt(ret_daily, close_wide.idx[i], j)
                = IF IsNaN(close_wide.val[i][j]) \/ IsNaN(close_wide.val[i - 1][j])
                  THEN NaN
                  ELSE RSub(RDiv(close_wide.val[i][j], close_wide.val[i - 1][j]), One)

\* The frame daily_returns gives for the run's price table: the one the
\* metrics row computed, or (an empty table never reaches the metrics row)
\* the function's result.
C3_Returns == IF Assigned(ret_daily) THEN ret_daily
              ELSE daily_returns(close_wide, fill_method)

BadBenchmarkTable ==
    \/ bench_data = DownloadFailed
    \/ (bench_data # DownloadFailed /\ (NRows(bench_data) = 0 \/ NCols(bench_data) # 1))
    \/ (Assigned(bench_prices) /\ Empty(bench_prices))

C5_NormIsCumulative ==
    (AfterTab1 /\ Assigned(norm)) =>
        norm = normalized_returns(
                   InnerJoin(close_wide, RenameFirst(FlattenColumns(bench_prices))))

\* C6: the correlation matrix is symmetric, and its diagonal is exactly 1.0
\* for every ticker with at least 2 valid daily returns.
C6_CorrDiagonal ==
    Assigned(r) =>
        LET ret == daily_returns(close_wide, fill_method)
        IN  /\ \A a \in DOMAIN r : \A b \in DOMAIN r : r[a][b] = r[b][a]
            /\ \A j \in 1..NCols(ret) :
                  ValidCount(ret, j) >= 2 => r[ret.cols[j]][ret.cols[j]] = [sgn |-> 1, sq |-> One]

\* C7: with no row on or after January 1 of the year, the YTD result has no
\* ticker entry.
C7_YtdEmpty ==
    (Assigned(ytd) /\ \A i \in 1..NRows(close_wide) : close_wide.idx[i] < yearStart) =>
        DOMAIN ytd = {}

\* The download failed or came back empty, for the tickers or the benchmark.
NoTickerData == Empty(close_wide)
NoBenchmarkData == benchmark # "" /\ Empty(bench_prices)

\* C8: a run whose download failed or came back empty (tickers, benchmark or
\* both) raises no uncaught exception; the transforms are empty on an empty
\* table and the metrics, correlation and download steps are skipped; with
\* only the benchmark missing the other analytics are computed.
C8_NoDataNoCrash ==
    (AfterData /\ (NoTickerData \/ NoBenchmarkData)) =>
        /\ err = "none"
        /\ pc # "crashed"
        /\ NoTickerData =>
              /\ long_close.rows = <<>>
              /\ Empty(daily_returns(close_wide, fill_method))
              /\ Empty(normalized_returns(close_wide))
              /\ AfterMetrics => vol30 = Skipped /\ ytd = Skipped /\ latest = Skipped
              /\ pc = "done" => r = Skipped /\ files = Skipped
        /\ (~NoTickerData /\ pc = "done") =>
              /\ Assigned(ret_daily) /\ Assigned(cum) /\ Assigned(latest)
              /\ Assigned(ytd) /\ Assigned(vol30) /\ Assigned(r)

\* C9: for a non-empty price table the metrics row raises nothing, reports
\* the volatility of every ticker with fewer than Window valid returns as
\* undefined, and produces the latest prices and the YTD returns.
C9_ShortHistoryUndefined ==
    (AfterMetrics /\ ~Empty(close_wide)) =>
        /\ err = "none"
        /\ Assigned(latest) /\ Assigned(ytd)
        /\ Assigned(vol30)
        /\ \A j \in 1..NCols(close_wide) :
              ValidCount(pct_change(close_wide, fill_method), j) < Window
                  => IsNaN(vol30[close_wide.cols[j]])

\* The price table with the column of one ticker only.
OnlyColumn(cw, j) ==
    [cw EXCEPT !.cols = <<cw.cols[j]>>,
               !.val = [i \in 1..NRows(cw) |-> <<cw.val[i][j]>>]]
\* What line 162 gives a ticker: its (squared) volatility, NaN, or Raised.
VolOutcome(ret, label) ==
    IF NRows(ret) = 0 THEN Raised ELSE rollingVolatility(ret)[label]

\* C10: the volatility the metrics row reports for a ticker is the one it
\* reports for the table that holds this ticker's column alone.
C10_VolIsolation ==
    (AfterMetrics /\ ~Empty(close_wide)) =>
        \A j \in 1..NCols(close_wide) :
            (IF vol30 = Raised THEN Raised ELSE vol30[close_wide.cols[j]])
                = VolOutcome(daily_returns(OnlyColumn(close_wide, j), fill_method),
                             close_wide.cols[j])

=============================================================================
